---------------------------- MODULE Spec2Model ----------------------------
(***************************************************************************)
(* Model of the document merge engine and template selector of             *)
(* webhook-server-lib: the JSON and YAML value trees, the recursive merge  *)
(* of two values, the metadata and resource merge, the YAML to JSON        *)
(* conversion, and the application of an ordered template list.            *)
(***************************************************************************)
EXTENDS Integers, Sequences, FiniteSets, TLC

VARIABLES
    form,       \* "json" | "yaml": which instantiation Resource<T> is used
    first,      \* the receiver / first operand of merge
    second,     \* the other / second operand of merge
    templates,  \* Templates.templates: the ordered list of Template
    target,     \* the candidate resource handed to Templates::apply_to
    result,     \* the value returned by the last operation
    pc,         \* "input" before an operation ran, then the operation's name
    calls,      \* the calls of merge_values not yet returned, innermost first
    callers,    \* the concurrent callers of Templates::apply_to on templates
    request     \* the HTTP request the server is handed

vars == <<form, first, second, templates, target, result, pc, calls, callers, request>>

(***************************************************************************)
(* Bounds of the model.                                                    *)
(***************************************************************************)
\* Total number of nodes (scalars, sequences, mappings) of the two operands
\* of a value merge taken together.
MaxNodes == 5
\* Length of the configured template list.
MaxTemplates == 2
\* the callers that call Templates::apply_to at the same time
NumCallers == 2

(***************************************************************************)
(* Option<T>                                                               *)
(***************************************************************************)
None == [t |-> "None", v |-> <<>>]
Some(x) == [t |-> "Some", v |-> x]
IsSome(o) == o.t = "Some"

(***************************************************************************)
(* serde_json::Value.  A Number keeps its representation (PosInt, NegInt,  *)
(* Float); an Object is a map from text keys to values.                    *)
(***************************************************************************)
JNull == [t |-> "Null", v |-> <<>>]
JBool(b) == [t |-> "Bool", v |-> b]
JNumber(n) == [t |-> "Number", v |-> n]
JString(s) == [t |-> "String", v |-> s]
JArray(vec) == [t |-> "Array", v |-> vec]
JObject(map) == [t |-> "Object", v |-> map]

\* serde_json::Map: new(), contains_key, get, insert
EmptyMap == [k \in {} |-> JNull]
MapContainsKey(m, k) == k \in DOMAIN m
MapInsert(m, k, x) == [key \in (DOMAIN m) \cup {k} |-> IF key = k THEN x ELSE m[key]]

(***************************************************************************)
(* serde_yaml::Value.  A Mapping is an insertion-ordered list of           *)
(* <<key, value>> entries with pairwise different keys; a key is itself a  *)
(* value.  A Tagged value is a tag and the wrapped value.                  *)
(***************************************************************************)
YNull == [t |-> "Null", v |-> <<>>]
YBool(b) == [t |-> "Bool", v |-> b]
YNumber(n) == [t |-> "Number", v |-> n]
YString(s) == [t |-> "String", v |-> s]
YSequence(seq) == [t |-> "Sequence", v |-> seq]
YMapping(entries) == [t |-> "Mapping", v |-> entries]
YTagged(tag, value) == [t |-> "Tagged", v |-> <<tag, value>>]

\* serde_yaml::Mapping: get, contains_key, insert (replaces the value of a
\* key already present in place, appends a new key at the end)
RECURSIVE YamlGet(_, _)
YamlGet(entries, key) ==
    IF entries = <<>> THEN None
    ELSE IF Head(entries)[1] = key THEN Some(Head(entries)[2])
    ELSE YamlGet(Tail(entries), key)

YamlContainsKey(entries, key) == IsSome(YamlGet(entries, key))

RECURSIVE YamlInsert(_, _, _)
YamlInsert(entries, key, value) ==
    IF entries = <<>> THEN << <<key, value>> >>
    ELSE IF Head(entries)[1] = key THEN << <<key, value>> >> \o Tail(entries)
    ELSE << Head(entries) >> \o YamlInsert(Tail(entries), key, value)

YamlKeys(entries) == {entries[i][1] : i \in 1..Len(entries)}

(***************************************************************************)
(* Helpers shared by both forms (resource.rs, free functions).             *)
(***************************************************************************)
\* fold(acc, |mut acc, v| { acc.push(v.clone()); acc })
RECURSIVE PushAll(_, _)
PushAll(acc, vec) ==
    IF vec = <<>> THEN acc ELSE PushAll(Append(acc, Head(vec)), Tail(vec))

\* Mutant of merge_arrays_vec: the second fold starts from an empty vector
\* instead of first_copies.
merge_arrays_vec_second_only(vec1, vec2) ==
    LET first_copies == PushAll(<<>>, vec1)
        new_vec == PushAll(<<>>, vec2)
    IN  new_vec

\* merge_arrays before the wrapper is applied
merge_arrays_vec(vec1, vec2) ==
    LET first_copies == PushAll(<<>>, vec1)
        new_vec == PushAll(first_copies, vec2)
    IN  new_vec

(***************************************************************************)
(* Resource<serde_json::Value>::merge_values and its helpers.              *)
(***************************************************************************)
json_construct_array_wrapper(array) == JArray(array)

json_merge_arrays(vec1, vec2) ==
    json_construct_array_wrapper(merge_arrays_vec(vec1, vec2))

RECURSIVE json_merge_values(_, _)
RECURSIVE json_merge_value_into_array(_, _)
RECURSIVE json_merge_object_maps(_, _)

\* Mutant of json_merge_values: the String arm clones the second operand.
json_merge_values_second_string(v1, v2) ==
    CASE v1.t = "Bool" /\ v2.t = "Bool" -> JBool(v1.v)
      [] v1.t = "Number" /\ v2.t = "Number" -> JNumber(v1.v)
      [] v1.t = "String" /\ v2.t = "String" -> JString(v2.v)
      [] v1.t = "Array" /\ v2.t = "Array" -> json_merge_arrays(v1.v, v2.v)
      [] v1.t = "Array" /\ v2.t # "Array" -> json_merge_value_into_array(v1.v, v2)
      [] v1.t = "Object" /\ v2.t = "Object" -> json_merge_object_maps(v1.v, v2.v)
      [] v1.t = "Null" -> v2
      [] v1.t \notin {"Null", "Array"} /\ v2.t = "Null" -> v1
      [] OTHER -> v1

\* Mutant of json_merge_values: the fallback arm clones the second operand.
json_merge_values_fallback_second(v1, v2) ==
    CASE v1.t = "Bool" /\ v2.t = "Bool" -> JBool(v1.v)
      [] v1.t = "Number" /\ v2.t = "Number" -> JNumber(v1.v)
      [] v1.t = "String" /\ v2.t = "String" -> JString(v1.v)
      [] v1.t = "Array" /\ v2.t = "Array" -> json_merge_arrays(v1.v, v2.v)
      [] v1.t = "Array" /\ v2.t # "Array" -> json_merge_value_into_array(v1.v, v2)
      [] v1.t = "Object" /\ v2.t = "Object" -> json_merge_object_maps(v1.v, v2.v)
      [] v1.t = "Null" -> v2
      [] v1.t \notin {"Null", "Array"} /\ v2.t = "Null" -> v1
      [] OTHER -> v2

\* Mutant of json_merge_values: the (_, Null) arm clones the second operand.
json_merge_values_null_second(v1, v2) ==
    CASE v1.t = "Bool" /\ v2.t = "Bool" -> JBool(v1.v)
      [] v1.t = "Number" /\ v2.t = "Number" -> JNumber(v1.v)
      [] v1.t = "String" /\ v2.t = "String" -> JString(v1.v)
      [] v1.t = "Array" /\ v2.t = "Array" -> json_merge_arrays(v1.v, v2.v)
      [] v1.t = "Array" /\ v2.t # "Array" -> json_merge_value_into_array(v1.v, v2)
      [] v1.t = "Object" /\ v2.t = "Object" -> json_merge_object_maps(v1.v, v2.v)
      [] v1.t = "Null" -> v2
      [] v1.t \notin {"Null", "Array"} /\ v2.t = "Null" -> v2
      [] OTHER -> v1

json_merge_values(v1, v2) ==
    CASE v1.t = "Bool" /\ v2.t = "Bool" -> JBool(v1.v)
      [] v1.t = "Number" /\ v2.t = "Number" -> JNumber(v1.v)
      [] v1.t = "String" /\ v2.t = "String" -> JString(v1.v)
      [] v1.t = "Array" /\ v2.t = "Array" -> json_merge_arrays(v1.v, v2.v)
      [] v1.t = "Array" /\ v2.t # "Array" -> json_merge_value_into_array(v1.v, v2)
      [] v1.t = "Object" /\ v2.t = "Object" -> json_merge_object_maps(v1.v, v2.v)
      [] v1.t = "Null" -> v2
      [] v1.t \notin {"Null", "Array"} /\ v2.t = "Null" -> v1
      [] OTHER -> v1

\* Mutant of json_merge_value_into_array: the items are cloned, not merged.
json_merge_value_into_array_cloned(vec, value) ==
    json_construct_array_wrapper(PushAll(<<>>, vec))

\* vec.iter().map(|item| merge_values(item, value)).collect()
json_merge_value_into_array(vec, value) ==
    IF vec = <<>> THEN json_construct_array_wrapper(<<>>)
    ELSE json_construct_array_wrapper(
            << json_merge_values(Head(vec), value) >>
                \o json_merge_value_into_array(Tail(vec), value).v)

\* Mutant of json_merge_object_maps: the second loop inserts without testing
\* contains_key, so the second's value replaces the merged one.
json_merge_object_maps_overwrite(map1, map2) ==
    LET after_first == [key \in DOMAIN map1 |->
                           IF MapContainsKey(map2, key)
                           THEN json_merge_values(map1[key], map2[key])
                           ELSE map1[key]]
        new_map == [key \in (DOMAIN after_first) \cup (DOMAIN map2) |->
                       IF MapContainsKey(map2, key)
                       THEN map2[key]
                       ELSE after_first[key]]
    IN  JObject(new_map)

json_merge_object_maps(map1, map2) ==
    LET \* first loop: every key of first, merged with second's value if any
        after_first == [key \in DOMAIN map1 |->
                           IF MapContainsKey(map2, key)
                           THEN json_merge_values(map1[key], map2[key])
                           ELSE map1[key]]
        \* second loop: every key of second not already added
        new_map == [key \in (DOMAIN after_first) \cup (DOMAIN map2) |->
                       IF MapContainsKey(after_first, key)
                       THEN after_first[key]
                       ELSE map2[key]]
    IN  JObject(new_map)

(***************************************************************************)
(* Resource<serde_yaml::Value>::merge_values and its helpers.              *)
(***************************************************************************)
yaml_construct_array_wrapper(array) == YSequence(array)

yaml_merge_arrays(seq1, seq2) ==
    yaml_construct_array_wrapper(merge_arrays_vec(seq1, seq2))

RECURSIVE yaml_merge_values(_, _)
RECURSIVE yaml_merge_first_loop(_, _, _)
RECURSIVE yaml_merge_second_loop(_, _)
RECURSIVE yaml_merge_mappings(_, _)

\* Mutant of yaml_merge_values: the (Null, _) arm is missing, so a Null
\* first operand reaches the fallback.
yaml_merge_values_no_null_first(v1, v2) ==
    CASE v1.t = "Bool" /\ v2.t = "Bool" -> YBool(v1.v)
      [] v1.t = "Number" /\ v2.t = "Number" -> YNumber(v1.v)
      [] v1.t = "String" /\ v2.t = "String" -> YString(v1.v)
      [] v1.t = "Sequence" /\ v2.t = "Sequence" -> yaml_merge_arrays(v1.v, v2.v)
      [] v1.t = "Mapping" /\ v2.t = "Mapping" -> yaml_merge_mappings(v1.v, v2.v)
      [] v1.t = "Tagged" /\ v2.t = "Tagged" -> YTagged(v1.v[1], v1.v[2])
      [] OTHER -> v1

yaml_merge_values(v1, v2) ==
    CASE v1.t = "Bool" /\ v2.t = "Bool" -> YBool(v1.v)
      [] v1.t = "Number" /\ v2.t = "Number" -> YNumber(v1.v)
      [] v1.t = "String" /\ v2.t = "String" -> YString(v1.v)
      [] v1.t = "Sequence" /\ v2.t = "Sequence" -> yaml_merge_arrays(v1.v, v2.v)
      [] v1.t = "Mapping" /\ v2.t = "Mapping" -> yaml_merge_mappings(v1.v, v2.v)
      [] v1.t = "Tagged" /\ v2.t = "Tagged" -> YTagged(v1.v[1], v1.v[2])
      [] v1.t = "Null" -> v2
      [] v1.t # "Null" /\ v2.t = "Null" -> v1
      [] OTHER -> v1

\* for (key, v1) in first.iter() { new_map.insert(key, merged or v1) }
yaml_merge_first_loop(entries1, map2, new_map) ==
    IF entries1 = <<>> THEN new_map
    ELSE LET key == Head(entries1)[1]
             v1 == Head(entries1)[2]
             got == YamlGet(map2, key)
             new_value == IF IsSome(got) THEN yaml_merge_values(v1, got.v) ELSE v1
         IN  yaml_merge_first_loop(Tail(entries1), map2, YamlInsert(new_map, key, new_value))

\* for (key, v2) in second.iter() { if !new_map.contains_key(key) { insert } }
yaml_merge_second_loop(entries2, new_map) ==
    IF entries2 = <<>> THEN new_map
    ELSE LET key == Head(entries2)[1]
             v2 == Head(entries2)[2]
         IN  yaml_merge_second_loop(Tail(entries2),
                 IF ~YamlContainsKey(new_map, key)
                 THEN YamlInsert(new_map, key, v2)
                 ELSE new_map)

yaml_merge_mappings(map1, map2) ==
    YMapping(yaml_merge_second_loop(map2, yaml_merge_first_loop(map1, map2, <<>>)))

(***************************************************************************)
(* YAML to JSON conversion.  A number is <<"PosInt", n>>, <<"NegInt", n>>  *)
(* or <<"Float", text>>; the floats ".nan", ".inf" and "-.inf" are the     *)
(* ones serde_json::Number::from_f64 refuses.                              *)
(***************************************************************************)
NonFiniteFloats == {".nan", ".inf", "-.inf"}

\* i64 / u64 Display, for the integers the model uses
IntText(i) ==
    CASE i = 0 -> "0"
      [] i = 1 -> "1"
      [] i = 2 -> "2"
      [] i = -1 -> "-1"
      [] OTHER -> "int"

BoolText(b) == IF b THEN "true" ELSE "false"

\* as_u64, then as_i64, then as_f64 followed by from_f64
convert_number_to_json(n) ==
    CASE n[1] = "PosInt" -> Some(<<"PosInt", n[2]>>)
      [] n[1] = "NegInt" -> Some(IF n[2] < 0 THEN <<"NegInt", n[2]>> ELSE <<"PosInt", n[2]>>)
      [] OTHER -> IF n[2] \in NonFiniteFloats THEN None ELSE Some(<<"Float", n[2]>>)

convert_value_to_string(yaml) ==
    CASE yaml.t = "Bool" -> Some(BoolText(yaml.v))
      [] yaml.t = "Number" -> Some(IF yaml.v[1] = "Float" THEN yaml.v[2] ELSE IntText(yaml.v[2]))
      [] yaml.t = "String" -> Some(yaml.v)
      [] OTHER -> None

RECURSIVE convert_value_to_json(_)
RECURSIVE convert_sequence_items(_)
RECURSIVE convert_mapping_fold(_, _)

convert_value_to_json(yaml) ==
    CASE yaml.t = "Bool" -> Some(JBool(yaml.v))
      [] yaml.t = "Number" ->
            LET n == convert_number_to_json(yaml.v)
            IN  IF IsSome(n) THEN Some(JNumber(n.v)) ELSE None
      [] yaml.t = "String" -> Some(JString(yaml.v))
      [] yaml.t = "Sequence" -> Some(JArray(convert_sequence_items(yaml.v)))
      [] yaml.t = "Mapping" -> Some(JObject(convert_mapping_fold(yaml.v, EmptyMap)))
      [] yaml.t = "Tagged" -> None
      [] OTHER -> Some(JNull)

\* Mutant of convert_sequence_items: map_while, the conversion stops at the
\* first element that fails.
RECURSIVE convert_sequence_items_map_while(_)
convert_sequence_items_map_while(seq) ==
    IF seq = <<>> THEN <<>>
    ELSE LET item == convert_value_to_json(Head(seq))
         IN  IF IsSome(item) THEN <<item.v>> \o convert_sequence_items_map_while(Tail(seq))
             ELSE <<>>

\* seq.iter().filter_map(|v| convert_value_to_json(v)).collect()
convert_sequence_items(seq) ==
    IF seq = <<>> THEN <<>>
    ELSE LET item == convert_value_to_json(Head(seq))
         IN  (IF IsSome(item) THEN <<item.v>> ELSE <<>>) \o convert_sequence_items(Tail(seq))

\* map.iter().fold(Map::new(), |acc, (key, value)| ... acc.insert(k, v) ...)
convert_mapping_fold(entries, acc) ==
    IF entries = <<>> THEN acc
    ELSE LET k == convert_value_to_string(Head(entries)[1])
             v == IF IsSome(k) THEN convert_value_to_json(Head(entries)[2]) ELSE None
         IN  convert_mapping_fold(Tail(entries),
                 IF IsSome(k) /\ IsSome(v) THEN MapInsert(acc, k.v, v.v) ELSE acc)

(***************************************************************************)
(* ObjectMeta and Resource<T>.  MapType is a map from text to text.        *)
(***************************************************************************)
ObjectMeta(name, namespace, labels, annotations) ==
    [name |-> name, namespace |-> namespace, labels |-> labels, annotations |-> annotations]

Resource(api_version, kind, metadata, spec) ==
    [api_version |-> api_version, kind |-> kind, metadata |-> metadata, spec |-> spec]

\* f.iter().fold(s.clone(), |mut acc, (k, v)| { acc.insert(k, v); acc })
InsertAll(acc, f) ==
    [k \in (DOMAIN acc) \cup (DOMAIN f) |-> IF k \in DOMAIN f THEN f[k] ELSE acc[k]]

\* Mutant of merge_maps: the fold runs over the second map into a copy of
\* the first, so the second wins on a key of both.
merge_maps_second_wins(m1, m2) ==
    IF IsSome(m1)
    THEN (IF IsSome(m2) THEN Some(InsertAll(m1.v, m2.v)) ELSE Some(m1.v))
    ELSE m2

merge_maps(m1, m2) ==
    IF IsSome(m1)
    THEN (IF IsSome(m2) THEN Some(InsertAll(m2.v, m1.v)) ELSE Some(m1.v))
    ELSE m2

\* Mutant of merge_meta: the annotations are merged from the labels fields.
merge_meta_annotations_from_labels(meta1, meta2) ==
    IF IsSome(meta1)
    THEN (IF IsSome(meta2)
          THEN Some(ObjectMeta(meta1.v.name,
                               meta1.v.namespace,
                               merge_maps(meta1.v.labels, meta2.v.labels),
                               merge_maps(meta1.v.labels, meta2.v.labels)))
          ELSE Some(meta1.v))
    ELSE meta2

\* Mutant of merge_meta: the merged metadata carries no labels.
merge_meta_without_labels(meta1, meta2) ==
    IF IsSome(meta1)
    THEN (IF IsSome(meta2)
          THEN Some(ObjectMeta(meta1.v.name,
                               meta1.v.namespace,
                               None,
                               merge_maps(meta1.v.annotations, meta2.v.annotations)))
          ELSE Some(meta1.v))
    ELSE meta2

merge_meta(meta1, meta2) ==
    IF IsSome(meta1)
    THEN (IF IsSome(meta2)
          THEN Some(ObjectMeta(meta1.v.name,
                               meta1.v.namespace,
                               merge_maps(meta1.v.labels, meta2.v.labels),
                               merge_maps(meta1.v.annotations, meta2.v.annotations)))
          ELSE Some(meta1.v))
    ELSE meta2

\* the merge_values function the instantiation hands to internal_merge
merge_values(f, v1, v2) ==
    IF f = "json" THEN json_merge_values(v1, v2) ELSE yaml_merge_values(v1, v2)

merge_opt_values(f, spec1, spec2) ==
    IF IsSome(spec1)
    THEN (IF IsSome(spec2) THEN Some(merge_values(f, spec1.v, spec2.v)) ELSE Some(spec1.v))
    ELSE spec2

\* Mutant of internal_merge: api_version and kind are cloned from other.
internal_merge_other_identity(f, self, other) ==
    Resource(other.api_version,
             other.kind,
             merge_meta(self.metadata, other.metadata),
             merge_opt_values(f, self.spec, other.spec))

internal_merge(f, self, other) ==
    Resource(self.api_version,
             self.kind,
             merge_meta(self.metadata, other.metadata),
             merge_opt_values(f, self.spec, other.spec))

\* Resource<serde_json::Value>::merge and Resource<serde_yaml::Value>::merge
json_merge(self, other) == internal_merge("json", self, other)
yaml_merge(self, other) == internal_merge("yaml", self, other)

\* Resource<serde_yaml::Value>::convert_to_json
convert_to_json(self) ==
    Resource(self.api_version,
             self.kind,
             self.metadata,
             IF IsSome(self.spec) THEN convert_value_to_json(self.spec.v) ELSE None)

(***************************************************************************)
(* Template and Templates.                                                 *)
(***************************************************************************)
Template(resource) == [resource |-> resource]

\* Mutant of AllEntriesIn: any() instead of all().
AllEntriesIn_any(template_map, resource_map) ==
    \E k \in DOMAIN template_map :
        k \in DOMAIN resource_map /\ resource_map[k] = template_map[k]

\* template_map.iter().all(|(k, v)| resource_map.get(k) == Some(v))
AllEntriesIn(template_map, resource_map) ==
    \A k \in DOMAIN template_map :
        k \in DOMAIN resource_map /\ resource_map[k] = template_map[k]

\* resource.metadata.as_ref().map(|rmeta| rmeta.<field>.as_ref()).flatten()
MetaField(resource, field) ==
    IF IsSome(resource.metadata) THEN resource.metadata.v[field] ELSE None

\* Mutant of template_matches: the kind is not compared.
template_matches_any_kind(self, resource) ==
    /\ self.resource.api_version = resource.api_version
    /\ IF IsSome(self.resource.metadata)
       THEN LET meta == self.resource.metadata.v
            IN  /\ IF IsSome(meta.namespace)
                   THEN LET rns == MetaField(resource, "namespace")
                        IN  IF IsSome(rns) THEN meta.namespace.v = rns.v ELSE FALSE
                   ELSE TRUE
                /\ IF IsSome(meta.labels)
                   THEN LET rlabels == MetaField(resource, "labels")
                        IN  IF IsSome(rlabels)
                            THEN AllEntriesIn(meta.labels.v, rlabels.v)
                            ELSE FALSE
                   ELSE TRUE
                /\ IF IsSome(meta.annotations)
                   THEN LET rannotations == MetaField(resource, "annotations")
                        IN  IF IsSome(rannotations)
                            THEN AllEntriesIn(meta.annotations.v, rannotations.v)
                            ELSE FALSE
                   ELSE TRUE
       ELSE TRUE

\* Mutant of template_matches: a candidate without namespace passes the
\* namespace selector (unwrap_or(true)).
template_matches_namespace_optional(self, resource) ==
    /\ self.resource.api_version = resource.api_version
    /\ self.resource.kind = resource.kind
    /\ IF IsSome(self.resource.metadata)
       THEN LET meta == self.resource.metadata.v
            IN  /\ IF IsSome(meta.namespace)
                   THEN LET rns == MetaField(resource, "namespace")
                        IN  IF IsSome(rns) THEN meta.namespace.v = rns.v ELSE TRUE
                   ELSE TRUE
                /\ IF IsSome(meta.labels)
                   THEN LET rlabels == MetaField(resource, "labels")
                        IN  IF IsSome(rlabels)
                            THEN AllEntriesIn(meta.labels.v, rlabels.v)
                            ELSE FALSE
                   ELSE TRUE
                /\ IF IsSome(meta.annotations)
                   THEN LET rannotations == MetaField(resource, "annotations")
                        IN  IF IsSome(rannotations)
                            THEN AllEntriesIn(meta.annotations.v, rannotations.v)
                            ELSE FALSE
                   ELSE TRUE
       ELSE TRUE

template_matches(self, resource) ==
    /\ self.resource.api_version = resource.api_version
    /\ self.resource.kind = resource.kind
    /\ IF IsSome(self.resource.metadata)
       THEN LET meta == self.resource.metadata.v
            IN  /\ IF IsSome(meta.namespace)
                   THEN LET rns == MetaField(resource, "namespace")
                        IN  IF IsSome(rns) THEN meta.namespace.v = rns.v ELSE FALSE
                   ELSE TRUE
                /\ IF IsSome(meta.labels)
                   THEN LET rlabels == MetaField(resource, "labels")
                        IN  IF IsSome(rlabels)
                            THEN AllEntriesIn(meta.labels.v, rlabels.v)
                            ELSE FALSE
                   ELSE TRUE
                /\ IF IsSome(meta.annotations)
                   THEN LET rannotations == MetaField(resource, "annotations")
                        IN  IF IsSome(rannotations)
                            THEN AllEntriesIn(meta.annotations.v, rannotations.v)
                            ELSE FALSE
                   ELSE TRUE
       ELSE TRUE

template_apply_to(self, resource) ==
    IF template_matches(self, resource)
    THEN Some(json_merge(resource, self.resource))
    ELSE None

\* Mutant of templates_apply_to: the last result of the filter_map is taken
\* instead of the next one.
RECURSIVE templates_apply_to_last(_, _)
templates_apply_to_last(ts, resource) ==
    IF ts = <<>> THEN None
    ELSE LET applied == template_apply_to(ts[Len(ts)], resource)
         IN  IF IsSome(applied) THEN applied
             ELSE templates_apply_to_last(SubSeq(ts, 1, Len(ts) - 1), resource)

\* self.templates.iter().filter_map(|template| template.apply_to(target)).next()
RECURSIVE templates_apply_to(_, _)
templates_apply_to(ts, resource) ==
    IF ts = <<>> THEN None
    ELSE LET applied == template_apply_to(Head(ts), resource)
         IN  IF IsSome(applied) THEN applied
             ELSE templates_apply_to(Tail(ts), resource)

\* Templates::construct_templates, from the parsed ConfigTemplates.templates
RECURSIVE construct_templates(_)
construct_templates(config_templates) ==
    IF config_templates = <<>> THEN <<>>
    ELSE <<Template(convert_to_json(Head(config_templates)))>>
            \o construct_templates(Tail(config_templates))

(***************************************************************************)
(* The operands the value merge is exercised on: every pair of values of   *)
(* one form with at most MaxNodes nodes together.                          *)
(***************************************************************************)
\* scalars an operand as a whole is drawn from
JsonScalars == {JNull, JBool(TRUE), JBool(FALSE), JNumber(<<"PosInt", 1>>),
                JNumber(<<"NegInt", -1>>), JString("a"), JString("b")}
\* scalars at the leaves of sequences and mappings
JsonAtoms == {JNull, JNumber(<<"PosInt", 1>>), JString("a"), JString("b")}
JsonKeys == <<"k1", "k2">>

RECURSIVE JsonOfSize(_)
RECURSIVE JsonVecOfSize(_)
RECURSIVE JsonMapOfSize(_, _)

JsonOfSize(n) ==
    (IF n = 1 THEN JsonAtoms ELSE {})
        \cup {JArray(vec) : vec \in JsonVecOfSize(n - 1)}
        \cup {JObject(map) : map \in JsonMapOfSize(n - 1, JsonKeys)}

JsonVecOfSize(n) ==
    IF n = 0 THEN {<<>>}
    ELSE UNION {{<<x>> \o rest : x \in JsonOfSize(k), rest \in JsonVecOfSize(n - k)} : k \in 1..n}

JsonMapOfSize(n, keys) ==
    IF n = 0 THEN {EmptyMap}
    ELSE IF keys = <<>> THEN {}
    ELSE JsonMapOfSize(n, Tail(keys))
            \cup UNION {{MapInsert(rest, Head(keys), x) :
                            x \in JsonOfSize(k), rest \in JsonMapOfSize(n - k, Tail(keys))} : k \in 1..n}

YamlScalars == {YNull, YBool(TRUE), YBool(FALSE), YNumber(<<"PosInt", 1>>),
                YNumber(<<"NegInt", -1>>), YNumber(<<"Float", ".nan">>),
                YString("a"), YString("b"),
                YTagged("!t", YString("a")), YTagged("!t", YString("b"))}
YamlAtoms == {YNull, YString("a"), YString("b"), YTagged("!t", YString("a"))}
YamlKeySet == {YString("k1"), YBool(TRUE)}

RECURSIVE YamlOfSize(_)
RECURSIVE YamlSeqOfSize(_)
RECURSIVE YamlEntriesOfSize(_, _)

YamlOfSize(n) ==
    (IF n = 1 THEN YamlAtoms ELSE {})
        \cup {YSequence(seq) : seq \in YamlSeqOfSize(n - 1)}
        \cup {YMapping(entries) : entries \in YamlEntriesOfSize(n - 1, YamlKeySet)}

YamlSeqOfSize(n) ==
    IF n = 0 THEN {<<>>}
    ELSE UNION {{<<x>> \o rest : x \in YamlOfSize(k), rest \in YamlSeqOfSize(n - k)} : k \in 1..n}

YamlEntriesOfSize(n, keys) ==
    IF n = 0 THEN {<<>>}
    ELSE UNION {UNION {{<< <<key, x>> >> \o rest :
                          x \in YamlOfSize(k), rest \in YamlEntriesOfSize(n - k, keys \ {key})} :
                       k \in 1..n} : key \in keys}

Sizes == {<<n1, n2>> \in (1..MaxNodes) \X (1..MaxNodes) : n1 + n2 <= MaxNodes}

(***************************************************************************)
(* The value merge as a state machine: two operands of one form, then one  *)
(* call of merge_values on them.                                           *)
(***************************************************************************)
InitValues ==
    /\ form \in {"json", "yaml"}
    /\ \/ /\ first \in (IF form = "json" THEN JsonScalars ELSE YamlScalars)
          /\ second \in (IF form = "json" THEN JsonScalars ELSE YamlScalars)
       \/ \E sz \in Sizes :
             /\ first \in (IF form = "json" THEN JsonOfSize(sz[1]) ELSE YamlOfSize(sz[1]))
             /\ second \in (IF form = "json" THEN JsonOfSize(sz[2]) ELSE YamlOfSize(sz[2]))
    /\ templates = <<>>
    /\ target = None
    /\ result = None
    /\ pc = "input"
    /\ calls = <<>>
    /\ callers = <<>>
    /\ request = None

\* Resource<serde_json::Value>::merge_values(first, second)
MergeJsonValues ==
    /\ pc = "input"
    /\ form = "json"
    /\ result' = json_merge_values(first, second)
    /\ pc' = "merge_values"
    /\ UNCHANGED <<form, first, second, templates, target, calls, callers, request>>

\* Resource<serde_yaml::Value>::merge_values(first, second)
MergeYamlValues ==
    /\ pc = "input"
    /\ form = "yaml"
    /\ result' = yaml_merge_values(first, second)
    /\ pc' = "merge_values"
    /\ UNCHANGED <<form, first, second, templates, target, calls, callers, request>>

NextValues == MergeJsonValues \/ MergeYamlValues

SpecValues == InitValues /\ [][NextValues]_vars

(***************************************************************************)
(* The resource merge as a state machine: a first resource (the side a     *)
(* candidate takes in apply_to), a second resource (the side a template    *)
(* takes), then one call of Resource::merge in the chosen form.            *)
(***************************************************************************)
FirstMetas ==
    {None} \cup
    {Some(ObjectMeta(name, namespace, labels, annotations)) :
        name \in {None, Some("n1")},
        namespace \in {None, Some("ns1")},
        labels \in {None, Some(EmptyMap), Some("l1" :> "a"),
                    Some(("l1" :> "a") @@ ("l2" :> "b"))},
        annotations \in {None, Some("a1" :> "a")}}

SecondMetas ==
    {None} \cup
    {Some(ObjectMeta(name, namespace, labels, annotations)) :
        name \in {None, Some("n2")},
        namespace \in {None, Some("ns1"), Some("ns2")},
        labels \in {None, Some(EmptyMap), Some("l1" :> "a"), Some("l1" :> "b"),
                    Some("l2" :> "b"), Some(("l1" :> "a") @@ ("l2" :> "b"))},
        annotations \in {None, Some("a1" :> "a"),
                         Some(("a1" :> "b") @@ ("a2" :> "b"))}}

FirstSpecs(f) ==
    IF f = "json"
    THEN {None, Some(JString("a")), Some(JArray(<<JNull>>)),
          Some(JObject(("k1" :> JString("a")) @@ ("k2" :> JNull)))}
    ELSE {None, Some(YString("a")), Some(YSequence(<<YNull>>)),
          Some(YMapping(<< <<YString("k1"), YString("a")>>, <<YString("k2"), YNull>> >>))}

SecondSpecs(f) ==
    IF f = "json" THEN {None, Some(JString("b"))} ELSE {None, Some(YString("b"))}

SecondIdentities == {<<"v1", "Pod">>, <<"v2", "Pod">>, <<"v1", "Service">>}

InitResources ==
    /\ form \in {"json", "yaml"}
    /\ first \in {Resource("v1", "Pod", metadata, spec) :
                     metadata \in FirstMetas, spec \in FirstSpecs(form)}
    /\ second \in {Resource(id[1], id[2], metadata, spec) :
                     id \in SecondIdentities, metadata \in SecondMetas,
                     spec \in SecondSpecs(form)}
    /\ templates = <<>>
    /\ target = None
    /\ result = None
    /\ pc = "input"
    /\ calls = <<>>
    /\ callers = <<>>
    /\ request = None

\* Resource<serde_json::Value>::merge(first, second)
MergeJsonResources ==
    /\ pc = "input"
    /\ form = "json"
    /\ result' = json_merge(first, second)
    /\ pc' = "merge"
    /\ UNCHANGED <<form, first, second, templates, target, calls, callers, request>>

\* Resource<serde_yaml::Value>::merge(first, second)
MergeYamlResources ==
    /\ pc = "input"
    /\ form = "yaml"
    /\ result' = yaml_merge(first, second)
    /\ pc' = "merge"
    /\ UNCHANGED <<form, first, second, templates, target, calls, callers, request>>

\* first.merge(&first), in the chosen form
SelfMerge ==
    /\ pc = "input"
    /\ result' = internal_merge(form, first, first)
    /\ pc' = "self_merge"
    /\ UNCHANGED <<form, first, second, templates, target, calls, callers, request>>

\* Template { resource: second }.matches(&first)
Matches ==
    /\ pc = "input"
    /\ form = "json"
    /\ result' = template_matches(Template(second), first)
    /\ pc' = "matches"
    /\ UNCHANGED <<form, first, second, templates, target, calls, callers, request>>

\* Template { resource: second }.apply_to(&first)
ApplyTemplate ==
    /\ pc = "input"
    /\ form = "json"
    /\ result' = template_apply_to(Template(second), first)
    /\ pc' = "template_apply_to"
    /\ UNCHANGED <<form, first, second, templates, target, calls, callers, request>>

NextResources ==
    MergeJsonResources \/ MergeYamlResources \/ SelfMerge \/ Matches \/ ApplyTemplate

SpecResources == InitResources /\ [][NextResources]_vars

(***************************************************************************)
(* The template set: built once from the configured YAML resources, then   *)
(* applied to a candidate.                                                 *)
(***************************************************************************)
ConfigResources ==
    {Resource(id[1], id[2], metadata, spec) :
        id \in {<<"v1", "Pod">>, <<"v1", "Service">>},
        metadata \in {None,
                      Some(ObjectMeta(Some("t"), Some("ns1"), None, None)),
                      Some(ObjectMeta(Some("t"), None, None, None)),
                      Some(ObjectMeta(None, None, Some("l1" :> "a"), None))},
        spec \in {Some(YMapping(<< <<YString("k1"), YString("b")>> >>)),
                  Some(YString("b"))}}

RECURSIVE ConfigLists(_)
ConfigLists(n) ==
    IF n = 0 THEN {<<>>}
    ELSE {<<>>} \cup {<<r>> \o rest : r \in ConfigResources, rest \in ConfigLists(n - 1)}

Candidates ==
    {Resource(id[1], id[2], metadata, spec) :
        id \in {<<"v1", "Pod">>, <<"v1", "Service">>, <<"v2", "Pod">>},
        metadata \in {None,
                      Some(ObjectMeta(Some("n1"), Some("ns1"), None, None)),
                      Some(ObjectMeta(Some("n1"), Some("ns2"), Some("l1" :> "a"), None)),
                      Some(ObjectMeta(None, None, Some(("l1" :> "a") @@ ("l2" :> "b")),
                                      Some("a1" :> "a"))),
                      Some(ObjectMeta(Some("n1"), Some("ns1"), Some("l1" :> "b"), None))},
        spec \in {None,
                  Some(JObject("k1" :> JString("a"))),
                  Some(JArray(<<JObject(EmptyMap)>>))}}

Init ==
    /\ form = "json"
    /\ first = None
    /\ second = None
    /\ \E config_templates \in ConfigLists(MaxTemplates) :
          templates = construct_templates(config_templates)
    /\ target \in Candidates
    /\ result = None
    /\ pc = "input"
    /\ calls = <<>>
    /\ callers = <<>>
    /\ request = None

\* Templates::apply_to(target)
ApplyTo ==
    /\ pc = "input"
    /\ result' = templates_apply_to(templates, target)
    /\ pc' = "apply_to"
    /\ UNCHANGED <<form, first, second, templates, target, calls, callers, request>>

Next == ApplyTo

Spec == Init /\ [][Next]_vars

(***************************************************************************)
(* Properties of the value merge (checked under SpecValues).               *)
(***************************************************************************)
Merged == pc = "merge_values"
SeqTag == IF form = "json" THEN "Array" ELSE "Sequence"
MapTag == IF form = "json" THEN "Object" ELSE "Mapping"
ScalarTags == {"Bool", "Number", "String"}

\* C2: in the JSON form, merging a sequence with a value that is neither a
\* sequence nor null gives a sequence of the same length whose element i is
\* the merge of the sequence's element i with that value.
BroadcastIntoSequence ==
    (Merged /\ form = "json" /\ first.t = "Array" /\ second.t \notin {"Array", "Null"})
        => /\ result.t = "Array"
           /\ Len(result.v) = Len(first.v)
           /\ \A i \in 1..Len(first.v) :
                 result.v[i] = json_merge_values(first.v[i], second)

\* a two-element sequence that the broadcast of a mapping has changed
BroadcastIntoSequenceWitness ==
    /\ Merged /\ form = "json"
    /\ first.t = "Array" /\ Len(first.v) = 2
    /\ second.t = "Object" /\ DOMAIN second.v # {}
    /\ result # first

\* C3: in both forms, merging two sequences gives the elements of the first
\* in order followed by the elements of the second in order, nothing merged
\* and nothing removed.
SequencesConcatenate ==
    (Merged /\ first.t = SeqTag /\ second.t = SeqTag)
        => /\ result.t = SeqTag
           /\ Len(result.v) = Len(first.v) + Len(second.v)
           /\ \A i \in 1..Len(first.v) : result.v[i] = first.v[i]
           /\ \A i \in 1..Len(second.v) : result.v[Len(first.v) + i] = second.v[i]

\* two YAML sequences sharing an element, which the result holds twice
SequencesConcatenateWitness ==
    /\ Merged /\ form = "yaml"
    /\ first.t = "Sequence" /\ second.t = "Sequence"
    /\ Len(first.v) >= 1 /\ Len(second.v) >= 1
    /\ first.v[1] = second.v[1]
    /\ Len(result.v) >= 2

JsonMappingsMerge ==
    LET m1 == first.v
        m2 == second.v
        r == result.v
    IN  /\ result.t = "Object"
        /\ DOMAIN r = (DOMAIN m1) \cup (DOMAIN m2)
        /\ \A key \in DOMAIN r :
              r[key] = IF key \in DOMAIN m1 /\ key \in DOMAIN m2
                       THEN json_merge_values(m1[key], m2[key])
                       ELSE IF key \in DOMAIN m1 THEN m1[key] ELSE m2[key]

YamlMappingsMerge ==
    LET m1 == first.v
        m2 == second.v
        r == result.v
    IN  /\ result.t = "Mapping"
        /\ YamlKeys(r) = YamlKeys(m1) \cup YamlKeys(m2)
        /\ Len(r) = Cardinality(YamlKeys(r))
        /\ \A key \in YamlKeys(r) :
              YamlGet(r, key).v =
                  IF key \in YamlKeys(m1) /\ key \in YamlKeys(m2)
                  THEN yaml_merge_values(YamlGet(m1, key).v, YamlGet(m2, key).v)
                  ELSE IF key \in YamlKeys(m1) THEN YamlGet(m1, key).v
                  ELSE YamlGet(m2, key).v

\* C4: merging two mappings gives a mapping whose keys are the union of both
\* key sets; a key of both holds the merge of the two values, a key of one
\* side holds that side's value unchanged.
MappingsMergeKeyWise ==
    (Merged /\ first.t = MapTag /\ second.t = MapTag)
        => IF form = "json" THEN JsonMappingsMerge ELSE YamlMappingsMerge

\* a key held by both sides with different values beside a key of one side
MappingsMergeKeyWiseWitness ==
    /\ Merged /\ form = "json"
    /\ first.t = "Object" /\ second.t = "Object"
    /\ \E key \in (DOMAIN first.v) \cap (DOMAIN second.v) : first.v[key] # second.v[key]
    /\ (DOMAIN first.v) \ (DOMAIN second.v) # {}

\* C5: Null is a two-sided identity of merge, for every value of any variant.
NullIsIdentity ==
    Merged => /\ second.t = "Null" => result = first
              /\ first.t = "Null" => result = second

\* a JSON sequence holding a sequence, merged with Null
NullIsIdentityWitness ==
    /\ Merged /\ form = "json"
    /\ first.t = "Array" /\ second.t = "Null"
    /\ \E i \in 1..Len(first.v) : first.v[i].t = "Array" /\ Len(first.v[i].v) >= 1

\* C6: for two scalars of the same variant the merge is the first.
FirstScalarWins ==
    (Merged /\ first.t \in ScalarTags /\ second.t = first.t) => result = first

\* two different strings
FirstScalarWinsWitness ==
    /\ Merged
    /\ first.t = "String" /\ second.t = "String"
    /\ first # second

\* C7: for two non-null values of different variants of which the first is
\* not a sequence, the merge is the first and nothing of the second.
MismatchKeepsFirst ==
    (Merged /\ first.t # "Null" /\ second.t # "Null"
            /\ first.t # second.t /\ first.t # SeqTag)
        => result = first

\* a mapping under a non-empty overlay sequence
MismatchKeepsFirstWitness ==
    /\ Merged
    /\ first.t = MapTag
    /\ second.t = SeqTag /\ Len(second.v) >= 1

RECURSIVE NoTagged(_)
NoTagged(yaml) ==
    CASE yaml.t = "Tagged" -> FALSE
      [] yaml.t = "Sequence" -> \A i \in 1..Len(yaml.v) : NoTagged(yaml.v[i])
      [] yaml.t = "Mapping" ->
            \A i \in 1..Len(yaml.v) : NoTagged(yaml.v[i][1]) /\ NoTagged(yaml.v[i][2])
      [] OTHER -> TRUE

RECURSIVE TextKeysOnly(_)
TextKeysOnly(yaml) ==
    CASE yaml.t = "Sequence" -> \A i \in 1..Len(yaml.v) : TextKeysOnly(yaml.v[i])
      [] yaml.t = "Mapping" ->
            \A i \in 1..Len(yaml.v) : yaml.v[i][1].t = "String" /\ TextKeysOnly(yaml.v[i][2])
      [] OTHER -> TRUE

\* C8: for YAML values without Tagged nodes and with text keys only, the
\* conversion of the YAML merge equals the JSON merge of the converted
\* operands.
YamlMergeRefinesJsonMerge ==
    (Merged /\ form = "yaml"
            /\ NoTagged(first) /\ NoTagged(second)
            /\ TextKeysOnly(first) /\ TextKeysOnly(second)
            /\ IsSome(convert_value_to_json(first))
            /\ IsSome(convert_value_to_json(second)))
        => convert_value_to_json(result) =
              Some(json_merge_values(convert_value_to_json(first).v,
                                     convert_value_to_json(second).v))

(***************************************************************************)
(* Properties of the metadata and resource merge (checked under            *)
(* SpecResources).                                                         *)
(***************************************************************************)
MergedResources == pc = "merge"

\* r is the merge of the optional maps m1 and m2 with the first winning
MapsMergedFirstWins(m1, m2, r) ==
    IF IsSome(m1) /\ IsSome(m2)
    THEN /\ IsSome(r)
         /\ DOMAIN r.v = (DOMAIN m1.v) \cup (DOMAIN m2.v)
         /\ \A k \in DOMAIN r.v :
               r.v[k] = IF k \in DOMAIN m1.v THEN m1.v[k] ELSE m2.v[k]
    ELSE IF IsSome(m1) THEN r = m1
    ELSE r = m2

\* C9: when both resources carry metadata, the merged labels and the merged
\* annotations each hold the union of both sides' keys, with the first's
\* value for a key the first has and the second's value otherwise; a map
\* absent on one side gives the other side's map, absent on both gives none.
MetadataMapsMerge ==
    (MergedResources /\ IsSome(first.metadata) /\ IsSome(second.metadata))
        => /\ IsSome(result.metadata)
           /\ MapsMergedFirstWins(first.metadata.v.labels,
                                  second.metadata.v.labels,
                                  result.metadata.v.labels)
           /\ MapsMergedFirstWins(first.metadata.v.annotations,
                                  second.metadata.v.annotations,
                                  result.metadata.v.annotations)

\* annotations with a key of both sides under different values and a key of
\* the second only, beside labels the first lacks
MetadataMapsMergeWitness ==
    /\ MergedResources
    /\ IsSome(first.metadata) /\ IsSome(second.metadata)
    /\ IsSome(first.metadata.v.annotations) /\ IsSome(second.metadata.v.annotations)
    /\ \E k \in (DOMAIN first.metadata.v.annotations.v)
                    \cap (DOMAIN second.metadata.v.annotations.v) :
          first.metadata.v.annotations.v[k] # second.metadata.v.annotations.v[k]
    /\ (DOMAIN second.metadata.v.annotations.v)
            \ (DOMAIN first.metadata.v.annotations.v) # {}
    /\ ~IsSome(first.metadata.v.labels) /\ IsSome(second.metadata.v.labels)

\* r combines the optional values o1 and o2: the one present, or both merged
OptionalCombined(o1, o2, both, r) ==
    IF IsSome(o1) /\ IsSome(o2) THEN r = Some(both)
    ELSE IF IsSome(o1) THEN r = o1
    ELSE r = o2

\* C10: the resource merge keeps apiVersion and kind of the first, and
\* combines metadata and spec each under the optional rule: the side that is
\* present verbatim, the merge of both when both are present, none otherwise.
ResourceMergeKeepsIdentity ==
    MergedResources
        => /\ result.api_version = first.api_version
           /\ result.kind = first.kind
           /\ OptionalCombined(first.metadata, second.metadata,
                  ObjectMeta(first.metadata.v.name,
                             first.metadata.v.namespace,
                             merge_maps(first.metadata.v.labels, second.metadata.v.labels),
                             merge_maps(first.metadata.v.annotations,
                                        second.metadata.v.annotations)),
                  result.metadata)
           /\ OptionalCombined(first.spec, second.spec,
                  merge_values(form, first.spec.v, second.spec.v),
                  result.spec)

\* a second resource of another kind, the only one with metadata, both specs
ResourceMergeKeepsIdentityWitness ==
    /\ MergedResources
    /\ second.kind # first.kind
    /\ ~IsSome(first.metadata) /\ IsSome(second.metadata)
    /\ IsSome(first.spec) /\ IsSome(second.spec)
    /\ result.spec # first.spec

(***************************************************************************)
(* Properties of the template set (checked under Spec).                    *)
(***************************************************************************)
Applied == pc = "apply_to"

Matching == {i \in 1..Len(templates) : template_matches(templates[i], target)}

FirstMatching == CHOOSE i \in Matching : \A j \in Matching : i <= j

\* C1: apply_to returns the merge of the candidate (first) with the resource
\* of the lowest-index matching template (second), and nothing when no
\* template matches; later templates never contribute.
FirstMatchWins ==
    Applied
        => IF Matching = {} THEN result = None
           ELSE result = Some(json_merge(target, templates[FirstMatching].resource))

\* two matching templates whose merges with the candidate differ
FirstMatchWinsWitness ==
    /\ Applied
    /\ Len(templates) = 2
    /\ Matching = {1, 2}
    /\ json_merge(target, templates[1].resource) # json_merge(target, templates[2].resource)
    /\ IsSome(result)

(***************************************************************************)
(* The YAML to JSON conversion as a state machine: a YAML value of at most *)
(* MaxNodes - 2 nodes or a sequence of three leaves, then one call of      *)
(* convert_value_to_json on it.  The                                       *)
(* leaves include the two that fail to convert, the keys one of each arm   *)
(* of convert_value_to_string and two of the same text.                    *)
(***************************************************************************)
ConvertAtoms == {YNull, YString("a"), YNumber(<<"Float", ".nan">>), YTagged("!t", YString("a"))}
ConvertKeySet == {YBool(TRUE), YString("true"), YNumber(<<"PosInt", 1>>), YNull}

RECURSIVE ConvertOfSize(_)
RECURSIVE ConvertSeqOfSize(_)
RECURSIVE ConvertEntriesOfSize(_, _)

ConvertOfSize(n) ==
    (IF n = 1 THEN ConvertAtoms ELSE {})
        \cup {YSequence(seq) : seq \in ConvertSeqOfSize(n - 1)}
        \cup {YMapping(entries) : entries \in ConvertEntriesOfSize(n - 1, ConvertKeySet)}

ConvertSeqOfSize(n) ==
    IF n = 0 THEN {<<>>}
    ELSE UNION {{<<x>> \o rest : x \in ConvertOfSize(k), rest \in ConvertSeqOfSize(n - k)} : k \in 1..n}

ConvertEntriesOfSize(n, keys) ==
    IF n = 0 THEN {<<>>}
    ELSE UNION {UNION {{<< <<key, x>> >> \o rest :
                          x \in ConvertOfSize(k), rest \in ConvertEntriesOfSize(n - k, keys \ {key})} :
                       k \in 1..n} : key \in keys}

\* the sequences of three leaves
ConvertTriples == {YSequence(<<x, y, z>>) : x \in ConvertAtoms, y \in ConvertAtoms, z \in ConvertAtoms}

InitConvert ==
    /\ form = "yaml"
    /\ first \in YamlScalars \cup ConvertTriples
                    \cup UNION {ConvertOfSize(n) : n \in 1..(MaxNodes - 2)}
    /\ second = YNull
    /\ templates = <<>>
    /\ target = None
    /\ result = None
    /\ pc = "input"
    /\ calls = <<>>
    /\ callers = <<>>
    /\ request = None

\* Resource<serde_yaml::Value>::convert_value_to_json(first)
ConvertValue ==
    /\ pc = "input"
    /\ result' = convert_value_to_json(first)
    /\ pc' = "convert_value_to_json"
    /\ UNCHANGED <<form, first, second, templates, target, calls, callers, request>>

NextConvert == ConvertValue

SpecConvert == InitConvert /\ [][NextConvert]_vars

(***************************************************************************)
(* The recursion of merge_values as a state machine.  calls holds the      *)
(* calls of merge_values that were made and have not run yet; a step runs  *)
(* the match of one of them and makes its self-calls.  When none is left   *)
(* the outermost call returns.                                             *)
(***************************************************************************)
\* the keys of a serde_json::Map in iteration order
JsonKeysOf(map) == SelectSeq(JsonKeys, LAMBDA key : MapContainsKey(map, key))

\* Mutant of json_self_calls: the broadcast hands each item the value wrapped
\* in an array.
json_self_calls_wrapped(v1, v2) ==
    CASE v1.t = "Array" /\ v2.t # "Array" ->
            [i \in 1..Len(v1.v) |-> <<v1.v[i], JArray(<<v2>>)>>]
      [] v1.t = "Object" /\ v2.t = "Object" ->
            LET keys == SelectSeq(JsonKeysOf(v1.v), LAMBDA key : MapContainsKey(v2.v, key))
            IN  [i \in 1..Len(keys) |-> <<v1.v[keys[i]], v2.v[keys[i]]>>]
      [] OTHER -> <<>>

\* the calls of merge_values that merge_values(v1, v2) makes itself: one per
\* item in merge_value_into_array, one per key of first that second has in
\* merge_object_maps, none in the other arms
json_self_calls(v1, v2) ==
    CASE v1.t = "Array" /\ v2.t # "Array" ->
            [i \in 1..Len(v1.v) |-> <<v1.v[i], v2>>]
      [] v1.t = "Object" /\ v2.t = "Object" ->
            LET keys == SelectSeq(JsonKeysOf(v1.v), LAMBDA key : MapContainsKey(v2.v, key))
            IN  [i \in 1..Len(keys) |-> <<v1.v[keys[i]], v2.v[keys[i]]>>]
      [] OTHER -> <<>>

\* the YAML form: one call per entry of first whose key second has, in
\* merge_mappings; no other arm calls merge_values
yaml_self_calls(v1, v2) ==
    IF v1.t = "Mapping" /\ v2.t = "Mapping"
    THEN LET common == SelectSeq(v1.v, LAMBDA entry : YamlContainsKey(v2.v, entry[1]))
         IN  [i \in 1..Len(common) |-> <<common[i][2], YamlGet(v2.v, common[i][1]).v>>]
    ELSE <<>>

self_calls(f, v1, v2) ==
    IF f = "json" THEN json_self_calls(v1, v2) ELSE yaml_self_calls(v1, v2)

\* leaves of the operands of the recursion
CallAtoms == {JNull, JString("a"), YNull, YString("a")}

RECURSIVE LeavesIn(_, _)
LeavesIn(value, atoms) ==
    CASE value.t \in {"Array", "Sequence"} ->
            \A i \in 1..Len(value.v) : LeavesIn(value.v[i], atoms)
      [] value.t = "Object" -> \A key \in DOMAIN value.v : LeavesIn(value.v[key], atoms)
      [] value.t = "Mapping" -> \A i \in 1..Len(value.v) : LeavesIn(value.v[i][2], atoms)
      [] OTHER -> value \in atoms

CallOperands(f, n) ==
    {value \in (IF f = "json" THEN JsonOfSize(n) ELSE YamlOfSize(n)) : LeavesIn(value, CallAtoms)}

InitCalls ==
    /\ form \in {"json", "yaml"}
    /\ \E sz \in Sizes :
          /\ first \in CallOperands(form, sz[1])
          /\ second \in CallOperands(form, sz[2])
    /\ templates = <<>>
    /\ target = None
    /\ result = None
    /\ pc = "input"
    /\ calls = <<>>
    /\ callers = <<>>
    /\ request = None

\* the caller calls merge_values(first, second)
CallMergeValues ==
    /\ pc = "input"
    /\ calls' = << <<first, second>> >>
    /\ pc' = "merge_values"
    /\ UNCHANGED <<form, first, second, templates, target, result, callers, request>>

\* the innermost call not yet run runs its match and makes its self-calls
RunMergeValues ==
    /\ pc = "merge_values"
    /\ calls # <<>>
    /\ calls' = self_calls(form, Head(calls)[1], Head(calls)[2]) \o Tail(calls)
    /\ UNCHANGED <<form, first, second, templates, target, result, pc, callers, request>>

\* every call has run: the outermost call returns its value
ReturnMergeValues ==
    /\ pc = "merge_values"
    /\ calls = <<>>
    /\ result' = merge_values(form, first, second)
    /\ pc' = "returned"
    /\ UNCHANGED <<form, first, second, templates, target, calls, callers, request>>

NextCalls == CallMergeValues \/ RunMergeValues \/ ReturnMergeValues

\* a call that was made runs: the recursion is sequential code of one thread
SpecCalls == InitCalls /\ [][NextCalls]_vars /\ WF_vars(NextCalls)

(***************************************************************************)
(* Concurrent calls of Templates::apply_to.  templates is the one shared   *)
(* Template Set, target[c] the candidate caller c passes by reference and  *)
(* callers[c] the local state of its call: the position of its iterator    *)
(* over self.templates, its result and whether it returned.  A step is one *)
(* pull on the filter_map iterator by one caller.                          *)
(***************************************************************************)
Callers == 1..NumCallers

\* Mutant of apply_to_step: the iterator advances by two after a template
\* that does not match.
apply_to_step_skip(ts, call, resource) ==
    IF call.next > Len(ts)
    THEN [next |-> call.next, result |-> None, pc |-> "returned"]
    ELSE LET applied == template_apply_to(ts[call.next], resource)
         IN  IF IsSome(applied)
             THEN [next |-> call.next, result |-> applied, pc |-> "returned"]
             ELSE [next |-> call.next + 2, result |-> None, pc |-> "iter"]

\* one pull of .next() on templates.iter().filter_map(|t| t.apply_to(target)):
\* the end of the vector or a Some ends the call, a None moves on
apply_to_step(ts, call, resource) ==
    IF call.next > Len(ts)
    THEN [next |-> call.next, result |-> None, pc |-> "returned"]
    ELSE LET applied == template_apply_to(ts[call.next], resource)
         IN  IF IsSome(applied)
             THEN [next |-> call.next, result |-> applied, pc |-> "returned"]
             ELSE [next |-> call.next + 1, result |-> None, pc |-> "iter"]

SharedConfigResources ==
    {r \in ConfigResources : r.kind = "Pod" /\ r.spec = Some(YString("b"))}

RECURSIVE SharedConfigLists(_)
SharedConfigLists(n) ==
    IF n = 0 THEN {<<>>}
    ELSE {<<>>} \cup {<<r>> \o rest : r \in SharedConfigResources, rest \in SharedConfigLists(n - 1)}

SharedCandidates ==
    {Resource("v1", "Pod", metadata, None) :
        metadata \in {None,
                      Some(ObjectMeta(Some("n1"), Some("ns1"), None, None)),
                      Some(ObjectMeta(Some("n1"), Some("ns2"), Some("l1" :> "a"), None))}}

InitConcurrent ==
    /\ form = "json"
    /\ first = None
    /\ second = None
    /\ \E config_templates \in SharedConfigLists(MaxTemplates) :
          templates = construct_templates(config_templates)
    /\ target \in [Callers -> SharedCandidates]
    /\ result = None
    /\ pc = "concurrent"
    /\ calls = <<>>
    /\ callers = [c \in Callers |-> [next |-> 1, result |-> None, pc |-> "iter"]]
    /\ request = None

\* caller c pulls once on its iterator
ApplyToStep(c) ==
    /\ callers[c].pc = "iter"
    /\ callers' = [callers EXCEPT ![c] = apply_to_step(templates, callers[c], target[c])]
    /\ UNCHANGED <<form, first, second, templates, target, result, pc, calls, request>>

NextConcurrent == \E c \in Callers : ApplyToStep(c)

SpecConcurrent == InitConcurrent /\ [][NextConcurrent]_vars

(***************************************************************************)
(* The server.  server_main loads the Template Set from the templates file *)
(* (first holds the parsed file) and run_server serves every connection    *)
(* with echo.  A body is the JSON text of a document, as a list of its     *)
(* tokens; target is the document the client serialised, request the       *)
(* request it sent and result the response echo gave.                      *)
(***************************************************************************)
LabelKeys == <<"a1", "a2", "l1", "l2">>

\* the tokens of a map of labels or annotations, absent when the map is
MapTokens(field, map) ==
    IF IsSome(map)
    THEN LET keys == SelectSeq(LabelKeys, LAMBDA key : key \in DOMAIN map.v)
             RECURSIVE Entries(_)
             Entries(ks) == IF ks = <<>> THEN <<>>
                            ELSE <<Head(ks), map.v[Head(ks)]>> \o Entries(Tail(ks))
         IN  <<field, "{">> \o Entries(keys) \o <<"}">>
    ELSE <<>>

OptTokens(field, opt) == IF IsSome(opt) THEN <<field, opt.v>> ELSE <<>>

\* serde_json text of a Resource whose spec is absent or a string
to_bytes(resource) ==
    <<"{", "apiVersion", resource.api_version, "kind", resource.kind>>
        \o (IF IsSome(resource.metadata)
            THEN <<"metadata", "{">>
                    \o OptTokens("name", resource.metadata.v.name)
                    \o OptTokens("namespace", resource.metadata.v.namespace)
                    \o MapTokens("labels", resource.metadata.v.labels)
                    \o MapTokens("annotations", resource.metadata.v.annotations)
                    \o <<"}">>
            ELSE <<>>)
        \o (IF IsSome(resource.spec) THEN <<"spec", resource.spec.v.v>> ELSE <<>>)
        \o <<"}">>

\* u8::to_ascii_uppercase over the bytes of one token
to_ascii_uppercase(token) ==
    CASE token = "apiVersion" -> "APIVERSION"
      [] token = "kind" -> "KIND"
      [] token = "metadata" -> "METADATA"
      [] token = "name" -> "NAME"
      [] token = "namespace" -> "NAMESPACE"
      [] token = "labels" -> "LABELS"
      [] token = "annotations" -> "ANNOTATIONS"
      [] token = "spec" -> "SPEC"
      [] token = "v1" -> "V1"
      [] token = "Pod" -> "POD"
      [] token = "n1" -> "N1"
      [] token = "ns1" -> "NS1"
      [] token = "ns2" -> "NS2"
      [] token = "l1" -> "L1"
      [] token = "a" -> "A"
      [] token = "b" -> "B"
      [] OTHER -> token

Methods == {"GET", "POST"}
Paths == {"/", "/echo", "/echo/uppercase", "/mutate"}

echo(req) ==
    CASE req.method = "GET" /\ req.path = "/" ->
            [status |-> 200, body |-> <<"Try POSTing data to /echo">>]
      [] req.method = "POST" /\ req.path = "/echo" ->
            [status |-> 200, body |-> req.body]
      [] req.method = "POST" /\ req.path = "/echo/uppercase" ->
            [status |-> 200,
             body |-> [i \in 1..Len(req.body) |-> to_ascii_uppercase(req.body[i])]]
      [] OTHER -> [status |-> 404, body |-> <<>>]

InitServer ==
    /\ form = "json"
    /\ first \in SharedConfigLists(MaxTemplates)
    /\ second = None
    /\ templates = <<>>
    /\ target = None
    /\ result = None
    /\ pc = "server_main"
    /\ calls = <<>>
    /\ callers = <<>>
    /\ request = None

\* server_main: the templates load and run_server binds the listener
ServerMain ==
    /\ pc = "server_main"
    /\ templates' = construct_templates(first)
    /\ pc' = "accept"
    /\ UNCHANGED <<form, first, second, target, result, calls, callers, request>>

\* server_main: Templates::from_file gives Err and expect panics, or the
\* bind fails and run_server returns the error
ServerMainFails ==
    /\ pc = "server_main"
    /\ pc' \in {"panicked", "exited"}
    /\ UNCHANGED <<form, first, second, templates, target, result, calls, callers, request>>

\* a connection is accepted and echo serves one request of it, whose body is
\* a candidate document
ServeConnection ==
    /\ pc = "accept"
    /\ \E method \in Methods, path \in Paths, candidate \in SharedCandidates :
          LET req == [method |-> method, path |-> path, body |-> to_bytes(candidate)]
          IN  /\ target' = Some(candidate)
              /\ request' = Some(req)
              /\ result' = Some(echo(req))
    /\ UNCHANGED <<form, first, second, templates, pc, calls, callers>>

NextServer == ServerMain \/ ServerMainFails \/ ServeConnection

SpecServer == InitServer /\ [][NextServer]_vars

(***************************************************************************)
(* Properties of the template matcher (checked under SpecResources, where  *)
(* the second resource is the template and the first the candidate).       *)
(***************************************************************************)
Matched == pc = "matches"

SameIdentity == second.api_version = first.api_version /\ second.kind = first.kind

\* C11: matches is false whenever the apiVersion or the kind of template and
\* candidate differ, and true whenever both are equal and the template has
\* no metadata, whatever the candidate's metadata.
IdentityDecidesMatch ==
    Matched => /\ ~SameIdentity => result = FALSE
               /\ (SameIdentity /\ ~IsSome(second.metadata)) => result = TRUE

\* a template without metadata that differs from the candidate in kind only
IdentityDecidesMatchWitness ==
    /\ Matched
    /\ second.api_version = first.api_version /\ second.kind # first.kind
    /\ ~IsSome(second.metadata)
    /\ IsSome(first.metadata)
    /\ result = FALSE

\* C12: if the template's metadata specifies a namespace, matches holds only
\* if the candidate has metadata with a namespace equal to it.
NamespaceSelector ==
    (Matched /\ IsSome(second.metadata) /\ IsSome(second.metadata.v.namespace)
             /\ result = TRUE)
        => /\ IsSome(first.metadata)
           /\ IsSome(first.metadata.v.namespace)
           /\ first.metadata.v.namespace.v = second.metadata.v.namespace.v

\* a template with a namespace and nothing else, a candidate of the same
\* identity with metadata but no namespace
NamespaceSelectorWitness ==
    /\ Matched /\ SameIdentity
    /\ IsSome(second.metadata) /\ IsSome(second.metadata.v.namespace)
    /\ ~IsSome(second.metadata.v.labels) /\ ~IsSome(second.metadata.v.annotations)
    /\ IsSome(first.metadata) /\ ~IsSome(first.metadata.v.namespace)
    /\ result = FALSE

\* the field of the candidate's metadata, absent without metadata
CandidateField(field) ==
    IF IsSome(first.metadata) THEN first.metadata.v[field] ELSE None

\* every key of the template's map is in the candidate's map, equal in value
SubsetWithEquality(tmap, cmap) ==
    /\ IsSome(cmap)
    /\ \A k \in DOMAIN tmap.v : k \in DOMAIN cmap.v /\ cmap.v[k] = tmap.v[k]

\* the selector field is populated: a map that is present and not empty
PopulatedMap(tmap) == IsSome(tmap) /\ DOMAIN tmap.v # {}

NamespaceHolds ==
    IsSome(second.metadata.v.namespace)
        => /\ IsSome(CandidateField("namespace"))
           /\ CandidateField("namespace").v = second.metadata.v.namespace.v

\* C13: a non-empty label (annotation) set of the template is a subset with
\* equality selector: matches holds only if every template key is in the
\* candidate's map with an equal value, and further keys of the candidate
\* never cause a non-match.
LabelSelector ==
    (Matched /\ IsSome(second.metadata)
             /\ (PopulatedMap(second.metadata.v.labels)
                    \/ PopulatedMap(second.metadata.v.annotations)))
        => LET tl == second.metadata.v.labels
               ta == second.metadata.v.annotations
               labelsHold == PopulatedMap(tl) => SubsetWithEquality(tl, CandidateField("labels"))
               annotationsHold == PopulatedMap(ta) => SubsetWithEquality(ta, CandidateField("annotations"))
           IN  /\ result = TRUE => (labelsHold /\ annotationsHold)
               /\ (SameIdentity /\ NamespaceHolds /\ labelsHold /\ annotationsHold
                       /\ (IsSome(tl) /\ ~PopulatedMap(tl) => IsSome(CandidateField("labels")))
                       /\ (IsSome(ta) /\ ~PopulatedMap(ta) => IsSome(CandidateField("annotations"))))
                    => result = TRUE

\* a one-label template matching a candidate that has a further label
LabelSelectorWitness ==
    /\ Matched
    /\ IsSome(second.metadata) /\ PopulatedMap(second.metadata.v.labels)
    /\ IsSome(first.metadata) /\ IsSome(first.metadata.v.labels)
    /\ (DOMAIN first.metadata.v.labels.v) \ (DOMAIN second.metadata.v.labels.v) # {}
    /\ result = TRUE

\* C14: an unpopulated selector field (an absent namespace, an absent or
\* empty label or annotation set) never makes matches false: the outcome is
\* decided by apiVersion, kind and the populated fields alone.
UnpopulatedFieldsDoNotConstrain ==
    Matched
        => result =
              (/\ SameIdentity
               /\ IsSome(second.metadata)
                    => /\ NamespaceHolds
                       /\ PopulatedMap(second.metadata.v.labels)
                            => SubsetWithEquality(second.metadata.v.labels,
                                                  CandidateField("labels"))
                       /\ PopulatedMap(second.metadata.v.annotations)
                            => SubsetWithEquality(second.metadata.v.annotations,
                                                  CandidateField("annotations")))

(***************************************************************************)
(* Self-merge (checked under SpecResources).                               *)
(***************************************************************************)
RECURSIVE NoSequence(_)
NoSequence(value) ==
    CASE value.t \in {"Array", "Sequence"} -> FALSE
      [] value.t = "Object" -> \A k \in DOMAIN value.v : NoSequence(value.v[k])
      [] value.t = "Mapping" -> \A i \in 1..Len(value.v) : NoSequence(value.v[i][2])
      [] OTHER -> TRUE

\* C20: merging a resource with itself gives the resource, when its metadata
\* and spec are absent and when its spec is built from null, scalars and
\* mappings only.
SelfMergeIsIdentity ==
    (pc = "self_merge" /\ (IsSome(first.spec) => NoSequence(first.spec.v)))
        => result = first

\* a resource with labels, annotations and a mapping for its spec
SelfMergeIsIdentityWitness ==
    /\ pc = "self_merge"
    /\ IsSome(first.metadata)
    /\ IsSome(first.metadata.v.labels) /\ IsSome(first.metadata.v.annotations)
    /\ IsSome(first.spec) /\ first.spec.v.t \in {"Object", "Mapping"}
    /\ result = first

(***************************************************************************)
(* YAML to JSON conversion (checked under SpecConvert).                    *)
(***************************************************************************)
Converted == pc = "convert_value_to_json"

\* the values that convert: all but a Tagged value and a number JSON cannot
\* represent (sequences and mappings convert whatever they hold)
Convertible(yaml) ==
    /\ yaml.t # "Tagged"
    /\ ~(yaml.t = "Number" /\ yaml.v[1] = "Float" /\ yaml.v[2] \in NonFiniteFloats)

\* the positions of the convertible elements of seq
KeptPositions(seq) == {i \in 1..Len(seq) : Convertible(seq[i])}

\* C15: the conversion of a sequence succeeds and yields the conversions of
\* its convertible elements in their original order; a Tagged element and a
\* number JSON cannot represent are dropped.
SequenceConversionDropsFailures ==
    (Converted /\ first.t = "Sequence")
        => /\ IsSome(result)
           /\ result.v.t = "Array"
           /\ LET kept == KeptPositions(first.v)
                  items == result.v.v
              IN  /\ Len(items) = Cardinality(kept)
                  /\ \A i \in kept :
                        LET j == Cardinality({h \in kept : h <= i})
                        IN  /\ IsSome(convert_value_to_json(first.v[i]))
                            /\ items[j] = convert_value_to_json(first.v[i]).v
                  /\ \A i \in (1..Len(first.v)) \ kept :
                        ~IsSome(convert_value_to_json(first.v[i]))

\* a sequence whose first element is dropped and whose later one is kept
SequenceConversionDropsFailuresWitness ==
    /\ Converted /\ first.t = "Sequence"
    /\ Len(first.v) >= 3
    /\ ~Convertible(first.v[1]) /\ Convertible(first.v[2]) /\ ~Convertible(first.v[3])
    /\ IsSome(result) /\ Len(result.v.v) = Len(first.v) - 2

\* the entry at position i converts: its key has a text form, its value converts
EntryConverts(entries, i) ==
    /\ entries[i][1].t \in {"Bool", "Number", "String"}
    /\ IsSome(convert_value_to_json(entries[i][2]))

\* C16: the conversion of a mapping succeeds; an entry appears in the result
\* under the text form of its key with its converted value exactly when its
\* key is a boolean, number or string and its value converts.
MappingConversionKeepsEntries ==
    (Converted /\ first.t = "Mapping")
        => /\ IsSome(result)
           /\ result.v.t = "Object"
           /\ \A i \in 1..Len(first.v) :
                 EntryConverts(first.v, i)
                    => LET text == convert_value_to_string(first.v[i][1]).v
                       IN  /\ text \in DOMAIN result.v.v
                           /\ result.v.v[text] = convert_value_to_json(first.v[i][2]).v
           /\ \A text \in DOMAIN result.v.v :
                 \E i \in 1..Len(first.v) :
                    /\ EntryConverts(first.v, i)
                    /\ convert_value_to_string(first.v[i][1]).v = text

(***************************************************************************)
(* Termination of the merge (checked under SpecCalls).                     *)
(***************************************************************************)
RECURSIVE Size(_)
RECURSIVE SumSizes(_)

\* the number of nodes of a value
Size(value) ==
    CASE value.t \in {"Array", "Sequence"} -> 1 + SumSizes(value.v)
      [] value.t = "Object" ->
            1 + SumSizes([i \in 1..Len(JsonKeysOf(value.v)) |-> value.v[JsonKeysOf(value.v)[i]]])
      [] value.t = "Mapping" -> 1 + SumSizes([i \in 1..Len(value.v) |-> value.v[i][2]])
      [] value.t = "Tagged" -> 1 + Size(value.v[2])
      [] OTHER -> 1

SumSizes(values) ==
    IF values = <<>> THEN 0 ELSE Size(Head(values)) + SumSizes(Tail(values))

RECURSIVE IsValue(_)
\* a value of one of the two forms
IsValue(value) ==
    CASE value.t \in {"Null", "Bool", "Number", "String"} -> TRUE
      [] value.t \in {"Array", "Sequence"} -> \A i \in 1..Len(value.v) : IsValue(value.v[i])
      [] value.t = "Object" -> \A key \in DOMAIN value.v : IsValue(value.v[key])
      [] value.t = "Mapping" ->
            \A i \in 1..Len(value.v) : IsValue(value.v[i][1]) /\ IsValue(value.v[i][2])
      [] value.t = "Tagged" -> IsValue(value.v[2])
      [] OTHER -> FALSE

\* the calls the step made: what is in front of the calls that were waiting
NewCalls == SubSeq(calls', 1, Len(calls') - (Len(calls) - 1))

\* every self-call has a strictly smaller first operand and no larger second
SelfCallsShrink ==
    (pc = "merge_values" /\ calls # <<>> /\ calls' # calls)
        => /\ Len(calls') >= Len(calls) - 1
           /\ \A i \in 1..Len(NewCalls) :
                 /\ Size(NewCalls[i][1]) < Size(Head(calls)[1])
                 /\ Size(NewCalls[i][2]) <= Size(Head(calls)[2])
                 /\ Size(NewCalls[i][1]) + Size(NewCalls[i][2])
                        < Size(Head(calls)[1]) + Size(Head(calls)[2])

\* C17: merge is total and terminating: every self-call is on a strictly
\* smaller pair of operands (the first strictly smaller, the second no
\* larger), the outermost call returns after finitely many of them, and what
\* it returns is a value.
MergeTerminates ==
    /\ [][SelfCallsShrink]_vars
    /\ <>(pc = "returned")
    /\ [](pc = "returned" => (calls = <<>> /\ IsValue(result)))

\* a broadcast whose self-calls made further self-calls has returned
MergeTerminatesWitness ==
    /\ pc = "returned"
    /\ first.t = "Array" /\ Len(first.v) >= 1
    /\ first.v[1].t = "Array" /\ Len(first.v[1].v) >= 1
    /\ second.t = "String"
    /\ result.t = "Array"

(***************************************************************************)
(* Concurrent calls (checked under SpecConcurrent).                        *)
(***************************************************************************)
\* every call that returned has the result of the call run alone
ReturnedAsAlone ==
    \A c \in Callers :
        callers[c].pc = "returned"
            => callers[c].result = templates_apply_to(templates, target[c])

\* C18: under every interleaving of concurrent apply_to calls on one shared
\* Template Set each call returns what it returns when run alone, and no
\* step changes the Template Set or a candidate passed in.
ConcurrentCallsIndependent ==
    /\ []ReturnedAsAlone
    /\ [][templates' = templates /\ target' = target]_vars

\* caller 1 returned the merge with the second template while caller 2, with
\* another candidate, is still between the first and the second template
ConcurrentCallsIndependentWitness ==
    /\ pc = "concurrent"
    /\ callers[1].pc = "returned" /\ callers[1].next = 2 /\ IsSome(callers[1].result)
    /\ callers[2].pc = "iter" /\ callers[2].next = 2
    /\ target[1] # target[2]

(***************************************************************************)
(* The server (checked under SpecServer).                                  *)
(***************************************************************************)
\* C19: while the server runs, a candidate document it is sent is tested
\* against the Template Set loaded at startup, and on a match the response
\* is the document merged with the matching template.
ServerReturnsMergedDocument ==
    (pc = "accept" /\ IsSome(request) /\ request.v.method = "POST")
        => LET applied == templates_apply_to(templates, target.v)
           IN  IsSome(applied) => result.v.body = to_bytes(applied.v)

(***************************************************************************)
(* Name and namespace of what apply_to returns (checked under Spec).       *)
(***************************************************************************)
\* the field of a resource's metadata, absent without metadata
FieldOf(resource, field) ==
    IF IsSome(resource.metadata) THEN resource.metadata.v[field] ELSE None

\* C21: whenever apply_to returns a result, the result's metadata name and
\* namespace are the candidate's own, absent where the candidate has none
\* (also when it has no metadata at all); a template's name or namespace
\* never appears in the output.
ApplyToKeepsNameAndNamespace ==
    (Applied /\ IsSome(result))
        => /\ FieldOf(result.v, "name") = FieldOf(target, "name")
           /\ FieldOf(result.v, "namespace") = FieldOf(target, "namespace")

(***************************************************************************)
(* Variant preservation (checked under SpecValues).                        *)
(***************************************************************************)
\* C22: for every non-null first and every second the merge has the variant
\* of first (a sequence stays a sequence, a mapping a mapping, a scalar the
\* same kind of scalar); so the merge is Null only when both operands are.
MergeKeepsVariant ==
    Merged
        => /\ first.t # "Null" => result.t = first.t
           /\ result.t = "Null" => (first.t = "Null" /\ second.t = "Null")

\* a mapping merged with a sequence, and a Tagged with another Tagged
MergeKeepsVariantWitness ==
    /\ Merged
    /\ \/ first.t \in {"Object", "Mapping"} /\ second.t \in {"Array", "Sequence"}
                /\ Len(second.v) >= 1
       \/ first.t = "Tagged" /\ second.t = "Tagged" /\ first # second
    /\ result.t = first.t

(***************************************************************************)
(* Matching after the merge (checked under SpecResources, where the second *)
(* resource is the template and the first the candidate).                  *)
(***************************************************************************)
\* C23: if a template matches a candidate, it also matches the merge of the
\* candidate with the template's resource: what apply_to returns is still
\* selected by the template that produced it.
MatchSurvivesMerge ==
    pc = "template_apply_to"
        => /\ IsSome(result) <=> template_matches(Template(second), first)
           /\ IsSome(result) => /\ result.v = json_merge(first, second)
                                /\ template_matches(Template(second), result.v)

\* a template with a namespace and a label applied to a candidate that has a
\* further label
MatchSurvivesMergeWitness ==
    /\ pc = "template_apply_to"
    /\ IsSome(second.metadata)
    /\ IsSome(second.metadata.v.namespace)
    /\ PopulatedMap(second.metadata.v.labels)
    /\ IsSome(first.metadata) /\ IsSome(first.metadata.v.labels)
    /\ (DOMAIN first.metadata.v.labels.v) \ (DOMAIN second.metadata.v.labels.v) # {}
    /\ IsSome(result)

(***************************************************************************)
(* Entry count of a converted mapping (checked under SpecConvert).         *)
(***************************************************************************)
\* C24: a mapping whose every key is a boolean, number or string and whose
\* every value converts yields a JSON mapping with as many entries as it has
\* itself: no entry is lost or overwritten by another.
MappingConversionKeepsCount ==
    (Converted /\ first.t = "Mapping"
               /\ \A i \in 1..Len(first.v) : EntryConverts(first.v, i))
        => /\ IsSome(result)
           /\ result.v.t = "Object"
           /\ Cardinality(DOMAIN result.v.v) = Len(first.v)

=============================================================================
